---- MODULE Spec2Model ----
(***************************************************************************)
(* ETLPipeline of src/etl_demo.py: one run instance holding a raw table,   *)
(* a processed table, a data quality report and an append-only log, with   *)
(* the phase operations extract_data, transform_data and load_and_analyze. *)
(*                                                                         *)
(* Representation.                                                         *)
(*  - A table (pandas DataFrame) is a sequence of rows, a row a record.    *)
(*  - A cell of a numeric column is Num(n), the missing value NaN, or an   *)
(*    unparseable token Unparseable (a CSV cell such as "abc").            *)
(*    Amounts are whole currency units (integers).                         *)
(*  - An e-mail cell is a string, given as its sequence of characters, or  *)
(*    missing.  A date cell is the text of a date, an unparseable token or *)
(*    missing; coerced it is a timestamp or NaT.                           *)
(*  - processing_logs is modelled by its length: entries are only ever     *)
(*    appended.                                                            *)
(*  - op, outcome and insights record the last call and what it returned   *)
(*    or raised to its caller; prev_op is the call before it, uploaded the *)
(*    kind of input the last call was given when it was extract_data.      *)
(***************************************************************************)
EXTENDS Integers, Sequences, FiniteSets, TLC

VARIABLES raw_data, processed_data, data_quality_report, processing_logs,
          op, prev_op, uploaded, outcome, insights

vars == <<raw_data, processed_data, data_quality_report, processing_logs,
          op, prev_op, uploaded, outcome, insights>>

(***************************************************************************)
(* Bounds of the model.                                                    *)
(***************************************************************************)
MaxRows == 2
MaxLog == 13

(***************************************************************************)
(* Program constants.                                                      *)
(***************************************************************************)
BudgetEdge == 50
MidRangeEdge == 200
PremiumEdge == 500
VipSpend == 1000
RegularSpend == 300
WeekendFrom == 5

(***************************************************************************)
(* Cells.                                                                  *)
(***************************************************************************)
NaN == [k |-> "nan", n |-> 0]
Num(n) == [k |-> "num", n |-> n]
Unparseable == [k |-> "str", n |-> 0]
PosInf == [k |-> "inf", n |-> 1]
NegInf == [k |-> "inf", n |-> -1]

IsNum(c) == c.k = "num"

Str(s) == [k |-> "str", s |-> s]
NoStr == [k |-> "nan", s |-> <<>>]

DateText(y, m, d) == [k |-> "text", y |-> y, m |-> m, d |-> d]
BadDate == [k |-> "str", y |-> 0, m |-> 0, d |-> 0]
NaT == [k |-> "nat", y |-> 0, m |-> 0, d |-> 0]
Timestamp(y, m, d) == [k |-> "ts", y |-> y, m |-> m, d |-> d]

NoPeriod == [k |-> "nat", ord |-> 0]
Period(o) == [k |-> "period", ord |-> o]

None == [present |-> FALSE, rows |-> <<>>]
Table(t) == [present |-> TRUE, rows |-> t]

EmptyReport ==
    [present |-> FALSE, total_records |-> 0, clean_records |-> 0,
     error_records |-> 0, data_quality_score |-> NaN, quality_issues |-> <<>>]

NoInsights ==
    [present |-> FALSE, total_revenue |-> 0, avg_order_value |-> <<0, 0>>,
     total_orders |-> 0, unique_customers |-> 0, top_category |-> "",
     best_region |-> "", monthly_growth |-> NaN]

(***************************************************************************)
(* Coercions of transform_data, errors='coerce'.                           *)
(***************************************************************************)
to_numeric(c) == IF c.k = "num" THEN c ELSE NaN

to_datetime(c) == IF c.k = "text" THEN Timestamp(c.y, c.m, c.d) ELSE NaT

\* Series.str.contains(ch, na): whether the string holds the character.
str_contains(e, ch, na) ==
    IF e.k = "nan" THEN na ELSE \E i \in DOMAIN e.s : e.s[i] = ch

\* df[col] <= 0 on a coerced cell: a comparison with NaN is False.
LeZero(c) == IsNum(c) /\ c.n <= 0

(***************************************************************************)
(* Arithmetic helpers.                                                     *)
(***************************************************************************)
\* round(num / den, 0) for den > 0, ties to the even neighbour, as round().
RoundHalfEvenPos(num, den) ==
    LET q == num \div den
        r == num - q * den
    IN  IF 2 * r < den THEN q
        ELSE IF 2 * r > den THEN q + 1
        ELSE IF q % 2 = 0 THEN q ELSE q + 1

RoundHalfEven(num, den) ==
    IF den > 0 THEN RoundHalfEvenPos(num, den) ELSE RoundHalfEvenPos(-num, -den)

\* Series.sum() of a sequence of cells: NaN is skipped, nothing sums to 0.
RECURSIVE SumCells(_)
SumCells(cells) ==
    IF cells = <<>> THEN 0
    ELSE (IF IsNum(Head(cells)) THEN Head(cells).n ELSE 0) + SumCells(Tail(cells))

\* df[col]: the column of a table, as the sequence of its cells.
Column(df, col) == [i \in DOMAIN df |-> df[i][col]]

\* df.groupby(keys)[cells].sum() read at group `name`: the sum of the cells
\* of the rows whose key is `name`.
GroupSum(keys, cells, name) ==
    SumCells([i \in DOMAIN keys |-> IF keys[i] = name THEN cells[i] ELSE NaN])

\* Days from 1970-01-01 to the civil date y-m-d (proleptic Gregorian).
days_from_civil(y, m, d) ==
    LET yy  == IF m <= 2 THEN y - 1 ELSE y
        era == yy \div 400
        yoe == yy - era * 400
        mp  == IF m > 2 THEN m - 3 ELSE m + 9
        doy == (153 * mp + 2) \div 5 + d - 1
        doe == yoe * 365 + yoe \div 4 - yoe \div 100 + doy
    IN  era * 146097 + doe - 719468

\* Series.dt.weekday: Monday is 0, Sunday is 6 (1970-01-01 was a Thursday).
weekday(ts) == (days_from_civil(ts.y, ts.m, ts.d) + 3) % 7

(***************************************************************************)
(* transform_data, step 1: data type conversions.                          *)
(***************************************************************************)
ConvertRow(r) ==
    [r EXCEPT !.order_date = to_datetime(r.order_date),
              !.price = to_numeric(r.price),
              !.quantity = to_numeric(r.quantity),
              !.total_amount = to_numeric(r.total_amount)]

ConvertTypes(t) == [i \in DOMAIN t |-> ConvertRow(t[i])]

(***************************************************************************)
(* transform_data, step 2: data validation.  The three rules are applied   *)
(* one after the other, each assigning its flag to the rows it matches.    *)
(***************************************************************************)
NoFlag == "NaN"

email_mask(r) == str_contains(r.customer_email, "@", FALSE)

\* The .str accessor needs string values: a non-empty column that holds
\* none (every cell missing, read as float64) raises AttributeError.
StrAccessorFails(t) ==
    /\ Len(t) > 0
    /\ \A i \in DOMAIN t : t[i].customer_email.k = "nan"

InvalidEmail(r) == ~email_mask(r)
InvalidPrice(r) == LeZero(r.price)
InvalidQuantity(r) == LeZero(r.quantity)

invalid_emails(t) == Cardinality({i \in DOMAIN t : InvalidEmail(t[i])})
invalid_prices(t) == Cardinality({i \in DOMAIN t : InvalidPrice(t[i])})
invalid_quantities(t) == Cardinality({i \in DOMAIN t : InvalidQuantity(t[i])})

FlagAfterEmail(r) == IF InvalidEmail(r) THEN "Invalid Email" ELSE NoFlag
FlagAfterPrice(r) == IF InvalidPrice(r) THEN "Invalid Price" ELSE FlagAfterEmail(r)
FlagAfterQuantity(r) ==
    IF InvalidQuantity(r) THEN "Invalid Quantity" ELSE FlagAfterPrice(r)

data_quality_flag(r) == FlagAfterQuantity(r)

\* The data_quality_flag column exists only once some rule has matched a row.
HasFlagColumn(t) ==
    invalid_emails(t) > 0 \/ invalid_prices(t) > 0 \/ invalid_quantities(t) > 0

\* Mutant of quality_issues: the list kept on the run instance and appended
\* to by every Transform run instead of starting empty.
quality_issues_kept_across_runs(t) ==
    data_quality_report.quality_issues
    \o (IF invalid_emails(t) > 0 THEN <<[rule |-> "Invalid emails", count |-> invalid_emails(t)]>> ELSE <<>>)
    \o (IF invalid_prices(t) > 0 THEN <<[rule |-> "Invalid prices", count |-> invalid_prices(t)]>> ELSE <<>>)
    \o (IF invalid_quantities(t) > 0 THEN <<[rule |-> "Invalid quantities", count |-> invalid_quantities(t)]>> ELSE <<>>)

Issue(rule, count) == [rule |-> rule, count |-> count]

quality_issues(t) ==
    (IF invalid_emails(t) > 0
        THEN <<Issue("Invalid emails", invalid_emails(t))>> ELSE <<>>)
    \o (IF invalid_prices(t) > 0
        THEN <<Issue("Invalid prices", invalid_prices(t))>> ELSE <<>>)
    \o (IF invalid_quantities(t) > 0
        THEN <<Issue("Invalid quantities", invalid_quantities(t))>> ELSE <<>>)

(***************************************************************************)
(* transform_data, step 3: business logic.                                 *)
(***************************************************************************)
\* pd.cut(price, bins=[0, 50, 200, 500, inf]): the bins are closed on the
\* right, (0, 50], (50, 200], (200, 500], (500, inf]; outside them, NaN.
price_tier(p) ==
    IF ~IsNum(p) THEN "NaN"
    ELSE IF p.n <= 0 THEN "NaN"
    ELSE IF p.n <= BudgetEdge THEN "Budget"
    ELSE IF p.n <= MidRangeEdge THEN "Mid-range"
    ELSE IF p.n <= PremiumEdge THEN "Premium"
    ELSE "Luxury"

\* dt.to_period('M') and dt.to_period('Q'): the period's ordinal.
to_period_M(ts) ==
    IF ts.k = "ts" THEN Period((ts.y - 1970) * 12 + (ts.m - 1)) ELSE NoPeriod

to_period_Q(ts) ==
    IF ts.k = "ts" THEN Period((ts.y - 1970) * 4 + (ts.m - 1) \div 3) ELSE NoPeriod

\* df.groupby('customer_id')['total_amount'].sum(), read at customer c.
customer_totals(t, c) ==
    GroupSum(Column(t, "customer_id"), Column(t, "total_amount"), c)

\* Mutant of customer_segment: the thresholds taken inclusive.
customer_segment_inclusive(t, c) ==
    IF customer_totals(t, c) >= VipSpend THEN "VIP"
    ELSE IF customer_totals(t, c) >= RegularSpend THEN "Regular"
    ELSE "New"

customer_segment(t, c) ==
    IF customer_totals(t, c) > VipSpend THEN "VIP"
    ELSE IF customer_totals(t, c) > RegularSpend THEN "Regular"
    ELSE "New"

(***************************************************************************)
(* transform_data, step 4: data enrichment.                                *)
(***************************************************************************)
\* (pd.Timestamp.now() - order_date).dt.days, now being some time of day on
\* the date `today`.
days_since_order(ts, today) ==
    IF ts.k = "ts"
    THEN Num(days_from_civil(today.y, today.m, today.d)
             - days_from_civil(ts.y, ts.m, ts.d))
    ELSE NaN

\* order_date.dt.weekday >= 5: the weekday of NaT is NaN and compares False.
is_weekend_order(ts) == ts.k = "ts" /\ weekday(ts) >= WeekendFrom

\* The processed row of converted row r of converted table t.
EnrichRow(t, r, today) ==
    [customer_email |-> r.customer_email,
     price |-> r.price,
     quantity |-> r.quantity,
     total_amount |-> r.total_amount,
     customer_id |-> r.customer_id,
     category |-> r.category,
     region |-> r.region,
     order_date |-> r.order_date,
     data_quality_flag |-> data_quality_flag(r),
     price_tier |-> price_tier(r.price),
     revenue |-> r.total_amount,
     month |-> to_period_M(r.order_date),
     quarter |-> to_period_Q(r.order_date),
     customer_segment |-> customer_segment(t, r.customer_id),
     days_since_order |-> days_since_order(r.order_date, today),
     is_weekend_order |-> is_weekend_order(r.order_date)]

\* The table transform_data builds from the raw table `raw`.
Processed(raw, today) ==
    LET t == ConvertTypes(raw)
    IN  [i \in DOMAIN t |-> EnrichRow(t, t[i], today)]

(***************************************************************************)
(* transform_data, step 5: data quality summary.                           *)
(***************************************************************************)
IsClean(r) == r.data_quality_flag = NoFlag

\* Mutant of clean_records: the rows less the three issue counts, which counts
\* a row that violates two rules twice.
clean_records_less_issue_counts(df) ==
    Len(df) - invalid_emails(df) - invalid_prices(df) - invalid_quantities(df)

\* len(df[~df.get('data_quality_flag', pd.Series()).notna()]) for a table
\* that has the flag column (without it, see TransformRaises).
clean_records(df) == Cardinality({i \in DOMAIN df : IsClean(df[i])})

error_records(total, clean) == total - clean

\* round((clean / total) * 100, 2), in hundredths of a percent.
data_quality_score(clean, total) == Num(RoundHalfEven(clean * 10000, total))

Report(raw, df) ==
    [present |-> TRUE,
     total_records |-> Len(raw),
     clean_records |-> clean_records(df),
     error_records |-> error_records(Len(raw), clean_records(df)),
     data_quality_score |-> data_quality_score(clean_records(df), Len(raw)),
     quality_issues |-> quality_issues(ConvertTypes(raw))]

\* What transform_data raises on raw table `raw`, "ok" when it completes:
\*  - AttributeError from .str on an e-mail column without strings;
\*  - IndexingError from the boolean key of clean_records when no rule matched
\*    (no flag column: the key is an empty Series, unalignable with the rows);
\*  - ZeroDivisionError from clean_records / total_records on zero rows.
TransformRaises(raw) ==
    IF StrAccessorFails(raw) THEN "AttributeError"
    ELSE IF Len(raw) > 0 /\ ~HasFlagColumn(ConvertTypes(raw)) THEN "IndexingError"
    ELSE IF Len(raw) = 0 THEN "ZeroDivisionError"
    ELSE "ok"

\* Log entries written by transform_data before it returns or raises.
TransformLogs(raw) ==
    CASE TransformRaises(raw) = "AttributeError" -> 3
      [] TransformRaises(raw) = "IndexingError" -> 5
      [] TransformRaises(raw) = "ZeroDivisionError" -> 5
      [] OTHER -> 6

(***************************************************************************)
(* load_and_analyze: the insights.                                         *)
(***************************************************************************)
\* The group keys of groupby come sorted: the names in their sorted order.
CategoryOrder == <<"Books", "Clothing", "Electronics">>
RegionOrder == <<"Asia", "Europe">>

\* df.groupby(keys)[cells].sum().idxmax(): the first key, in sorted order,
\* whose summed cells are the largest; `order` holds the sorted keys.
idxmax(keys, cells, order) ==
    LET present == {j \in DOMAIN order : \E i \in DOMAIN keys : keys[i] = order[j]}
        best == CHOOSE j \in present :
                    /\ \A k \in present :
                           GroupSum(keys, cells, order[k]) <= GroupSum(keys, cells, order[j])
                    /\ \A k \in present :
                           k < j => GroupSum(keys, cells, order[k])
                                        < GroupSum(keys, cells, order[j])
    IN  order[best]

\* Mutant of growth_rate: the two periods taken the wrong way round.
growth_rate_periods_swapped(current_month, previous_month) ==
    IF current_month = 0
    THEN IF previous_month > 0 THEN PosInf
         ELSE IF previous_month < 0 THEN NegInf
         ELSE NaN
    ELSE Num(RoundHalfEven((previous_month - current_month) * 10000, current_month))

\* round(((current - previous) / previous) * 100, 2), in hundredths of a
\* percent; a division by zero gives inf, -inf or nan, not an exception.
growth_rate(current_month, previous_month) ==
    IF previous_month = 0
    THEN IF current_month > 0 THEN PosInf
         ELSE IF current_month < 0 THEN NegInf
         ELSE NaN
    ELSE Num(RoundHalfEven((current_month - previous_month) * 10000, previous_month))

\* The periods of df.groupby('month'): rows whose month is NaT form no group.
Months(df) == {df[i].month.ord : i \in {j \in DOMAIN df : df[j].month.k = "period"}}

MonthRevenue(df, o) == GroupSum(Column(df, "month"), Column(df, "revenue"), Period(o))

_calculate_monthly_growth(df) ==
    IF Cardinality(Months(df)) >= 2
    THEN LET last == CHOOSE o \in Months(df) : \A x \in Months(df) : x <= o
             rest == Months(df) \ {last}
             prev == CHOOSE o \in rest : \A x \in rest : x <= o
         IN  growth_rate(MonthRevenue(df, last), MonthRevenue(df, prev))
    ELSE Num(0)

\* idxmax of an empty Series raises ValueError.
LoadRaises(df) == IF Len(df) = 0 THEN "ValueError" ELSE "ok"

Insights(df) ==
    [present |-> TRUE,
     total_revenue |-> SumCells(Column(df, "revenue")),
     avg_order_value |-> <<SumCells(Column(df, "revenue")),
                           Cardinality({i \in DOMAIN df : IsNum(df[i].revenue)})>>,
     total_orders |-> Len(df),
     unique_customers |-> Cardinality({df[i].customer_id : i \in DOMAIN df}),
     top_category |-> idxmax(Column(df, "category"), Column(df, "revenue"), CategoryOrder),
     best_region |-> idxmax(Column(df, "region"), Column(df, "revenue"), RegionOrder),
     monthly_growth |-> _calculate_monthly_growth(df)]

(***************************************************************************)
(* Inputs.                                                                 *)
(***************************************************************************)
Row(e, p, q, a, c, cat, reg, d) ==
    [customer_email |-> e, price |-> p, quantity |-> q, total_amount |-> a,
     customer_id |-> c, category |-> cat, region |-> reg, order_date |-> d]

TablesOver(rows) == UNION {[1..n -> rows] : n \in 0..MaxRows}

GoodEmail == Str(<<"c", "@", "g">>)
BadEmail == Str(<<"c", "g">>)

\* Rows generate_sample_data can produce: price and quantity positive, the
\* e-mail with or without its "@", the date parseable.
CleanRow ==
    Row(GoodEmail, Num(10), Num(2), Num(20), "CUST-1", "Books", "Asia",
        DateText(2024, 1, 6))
BadEmailRow ==
    Row(BadEmail, Num(400), Num(1), Num(400), "CUST-2", "Clothing", "Europe",
        DateText(2024, 2, 5))
SampleRows == {CleanRow, BadEmailRow}

\* A row only a file can bring: no e-mail, an unparseable price and date,
\* a zero quantity.
BrokenRow ==
    Row(NoStr, Unparseable, Num(0), NaN, "CUST-1", "Books", "Asia", BadDate)
PipelineRows == SampleRows \cup {BrokenRow}

\* num_records of generate_sample_data, scaled down to the model.
NumRecords == MaxRows
SampleTables == [1..NumRecords -> SampleRows]

NoFile == [k |-> "none", rows |-> <<>>]
UnreadableFile == [k |-> "bad", rows |-> <<>>]
Csv(t) == [k |-> "csv", rows |-> t]

PipelineFiles == {NoFile, UnreadableFile} \cup {Csv(t) : t \in TablesOver(PipelineRows)}

\* The dates pd.Timestamp.now() may fall on.
Clock == {Timestamp(2024, 3, 1), Timestamp(2024, 3, 2)}

(***************************************************************************)
(* Rows for the per-row and per-table rules, one group of columns varied   *)
(* at a time.  Every row but those of ValidationRows has an e-mail without *)
(* "@", so that the table has a flagged row and transform_data completes.  *)
(***************************************************************************)
ValidationRows ==
    {Row(e, p, q, Num(20), "CUST-1", "Books", "Asia", DateText(2024, 1, 6)) :
        e \in {GoodEmail, BadEmail, NoStr},
        p \in {Num(10), Num(-10), Unparseable},
        q \in {Num(2), Num(0)}}

TierRows ==
    {Row(BadEmail, p, Num(1), Num(20), "CUST-1", "Books", "Asia", DateText(2024, 1, 6)) :
        p \in {Num(n) : n \in {0, 1, 49, 50, 51, 199, 200, 201, 499, 500, 501}}
              \cup {Unparseable}}

SegmentRows ==
    {Row(BadEmail, Num(10), Num(1), a, c, "Books", "Asia", DateText(2024, 1, 6)) :
        a \in {Num(n) : n \in {150, 300, 500, 1000, 1001}} \cup {Unparseable},
        c \in {"CUST-1", "CUST-2"}}

\* Orders dated Friday 2024-01-05 to Monday 2024-01-08, and one whose date
\* text is not a date; the e-mail is invalid so that the flag column exists.
DateRows ==
    {Row(BadEmail, Num(10), Num(2), Num(20), "CUST-1", "Books", "Asia", d) :
        d \in {DateText(2024, 1, n) : n \in 5..8} \cup {BadDate}}

GrowthRows ==
    {Row(BadEmail, Num(10), Num(1), a, "CUST-1", "Books", "Asia", d) :
        a \in {Num(n) : n \in {0, 100, 150, 300}} \cup {Unparseable},
        d \in {DateText(2023, 12, 15), DateText(2024, 1, 10), DateText(2024, 2, 3),
               BadDate}}

\* The rows of the end-to-end scenario, (price, quantity, discount) being
\* (10, 2, 0), (-5, 1, 0), (20, 0, 0) and (30, 1, 10), each with a valid e-mail.
ScenarioRow(p, q, a) ==
    Row(GoodEmail, Num(p), Num(q), Num(a), "CUST-1", "Books", "Asia", DateText(2024, 1, 6))

EndToEndTable ==
    <<ScenarioRow(10, 2, 20), ScenarioRow(-5, 1, -5),
      ScenarioRow(20, 0, 0), ScenarioRow(30, 1, 27)>>

ScenarioRows == {EndToEndTable[i] : i \in DOMAIN EndToEndTable}

ScenarioTables == TablesOver(ScenarioRows) \cup {EndToEndTable}

\* Rows with a valid e-mail and quantity whose price may fail numeric coercion
\* (an unparseable token or a missing cell), and a row with an invalid e-mail.
CoercionRows ==
    {Row(GoodEmail, p, Num(2), Num(20), "CUST-1", "Books", "Asia", DateText(2024, 1, 6)) :
        p \in {Num(10), Num(-10), Unparseable, NaN}}
    \cup {Row(BadEmail, Num(10), Num(2), Num(20), "CUST-1", "Books", "Asia",
              DateText(2024, 1, 6))}

(***************************************************************************)
(* The run instance.                                                       *)
(***************************************************************************)
Init ==
    /\ raw_data = None
    /\ processed_data = None
    /\ data_quality_report = EmptyReport
    /\ processing_logs = 0
    /\ op = "new"
    /\ prev_op = "new"
    /\ uploaded = "-"
    /\ outcome = "ok"
    /\ insights = NoInsights

\* Log entries of one extract_data call: generate_sample_data logs twice.
ExtractLogs(uploaded_file) == IF uploaded_file.k = "none" THEN 2 ELSE 1

\* Mutant of extract_data: a file that cannot be read leaves the run without
\* a raw table (raw_data reset in the except branch).
extract_data_resets_on_error(files) ==
    \E uploaded_file \in files :
      \E sample \in (IF uploaded_file.k = "none" THEN SampleTables ELSE {<<>>}) :
        /\ processing_logs + ExtractLogs(uploaded_file) <= MaxLog
        /\ raw_data' = CASE uploaded_file.k = "none" -> Table(sample)
                         [] uploaded_file.k = "csv" -> Table(uploaded_file.rows)
                         [] OTHER -> None
        /\ processing_logs' = processing_logs + ExtractLogs(uploaded_file)
        /\ op' = "extract"
        /\ prev_op' = op
        /\ uploaded' = uploaded_file.k
        /\ outcome' = IF uploaded_file.k = "bad" THEN "none" ELSE "ok"
        /\ insights' = NoInsights
        /\ UNCHANGED <<processed_data, data_quality_report>>

\* extract_data(uploaded_file); without a file, generate_sample_data().
extract_data(files) ==
    \E uploaded_file \in files :
      \E sample \in (IF uploaded_file.k = "none" THEN SampleTables ELSE {<<>>}) :
        /\ processing_logs + ExtractLogs(uploaded_file) <= MaxLog
        /\ raw_data' = CASE uploaded_file.k = "none" -> Table(sample)
                         [] uploaded_file.k = "csv" -> Table(uploaded_file.rows)
                         [] OTHER -> raw_data
        /\ processing_logs' = processing_logs + ExtractLogs(uploaded_file)
        /\ op' = "extract"
        /\ prev_op' = op
        /\ uploaded' = uploaded_file.k
        /\ outcome' = IF uploaded_file.k = "bad" THEN "none" ELSE "ok"
        /\ insights' = NoInsights
        /\ UNCHANGED <<processed_data, data_quality_report>>

\* Mutant of TransformAbort: without a raw table the call falls back to
\* generated sample data, as extract_data does without a file.
TransformAbort_generates_sample ==
    \E sample \in SampleTables :
        /\ processing_logs + 2 <= MaxLog
        /\ processing_logs' = processing_logs + 2
        /\ raw_data' = Table(sample)
        /\ op' = "transform"
        /\ prev_op' = op
        /\ uploaded' = "-"
        /\ outcome' = "none"
        /\ insights' = NoInsights
        /\ UNCHANGED <<processed_data, data_quality_report>>

\* transform_data without a raw table: one log entry, None returned.
TransformAbort ==
    /\ processing_logs + 1 <= MaxLog
    /\ processing_logs' = processing_logs + 1
    /\ op' = "transform"
    /\ prev_op' = op
    /\ uploaded' = "-"
    /\ outcome' = "none"
    /\ insights' = NoInsights
    /\ UNCHANGED <<raw_data, processed_data, data_quality_report>>

\* Mutant of RawAfterTransform: df = self.raw_data without the copy, so that
\* the raw table is the table the columns are assigned to.
RawAliasedByTransform(raw, df) == df

\* df = self.raw_data.copy(): the columns assigned to df leave the raw table
\* as it was.
RawAfterTransform(raw, df) == raw

\* transform_data on the raw table, the clock reading `today`.
TransformRun(today) ==
    LET raw == raw_data.rows
        df == Processed(raw, today)
        err == TransformRaises(raw)
    IN  /\ processing_logs + TransformLogs(raw) <= MaxLog
        /\ processing_logs' = processing_logs + TransformLogs(raw)
        /\ op' = "transform"
        /\ prev_op' = op
        /\ uploaded' = "-"
        /\ outcome' = err
        /\ insights' = NoInsights
        /\ raw_data' = Table(RawAfterTransform(raw, df))
        /\ data_quality_report' =
               IF err = "ok" THEN Report(raw, df) ELSE data_quality_report
        /\ processed_data' = IF err = "ok" THEN Table(df) ELSE processed_data

transform_data ==
    \E today \in Clock :
      IF ~raw_data.present THEN TransformAbort ELSE TransformRun(today)

\* load_and_analyze without a processed table: one log entry, None returned.
LoadAbort ==
    /\ processing_logs + 1 <= MaxLog
    /\ processing_logs' = processing_logs + 1
    /\ op' = "load"
    /\ prev_op' = op
    /\ uploaded' = "-"
    /\ outcome' = "none"
    /\ insights' = NoInsights
    /\ UNCHANGED <<raw_data, processed_data, data_quality_report>>

LoadRun ==
    LET df == processed_data.rows
        err == LoadRaises(df)
        logs == IF err = "ok" THEN 2 ELSE 1
    IN  /\ processing_logs + logs <= MaxLog
        /\ processing_logs' = processing_logs + logs
        /\ op' = "load"
        /\ prev_op' = op
        /\ uploaded' = "-"
        /\ outcome' = err
        /\ insights' = IF err = "ok" THEN Insights(df) ELSE NoInsights
        /\ UNCHANGED <<raw_data, processed_data, data_quality_report>>

load_and_analyze == IF ~processed_data.present THEN LoadAbort ELSE LoadRun

Next == extract_data(PipelineFiles) \/ transform_data \/ load_and_analyze

Spec == Init /\ [][Next]_vars

(***************************************************************************)
(* The rules of transform_data and load_and_analyze, each over its own     *)
(* tables: the run instance right after extract_data has loaded one of the *)
(* tables, then any calls of transform_data and load_and_analyze.          *)
(***************************************************************************)
Loaded(tables) ==
    /\ raw_data \in {Table(t) : t \in tables}
    /\ processed_data = None
    /\ data_quality_report = EmptyReport
    /\ processing_logs = 1
    /\ op = "extract"
    /\ prev_op = "new"
    /\ uploaded = "csv"
    /\ outcome = "ok"
    /\ insights = NoInsights

NextRules == transform_data \/ load_and_analyze

InitValidation == Loaded(TablesOver(ValidationRows))
SpecValidation == InitValidation /\ [][NextRules]_vars

InitTiers == Loaded(TablesOver(TierRows))
SpecTiers == InitTiers /\ [][NextRules]_vars

InitSegments == Loaded(TablesOver(SegmentRows))
SpecSegments == InitSegments /\ [][NextRules]_vars

InitGrowth == Loaded(TablesOver(GrowthRows))
SpecGrowth == InitGrowth /\ [][NextRules]_vars

InitCoercion == Loaded(TablesOver(CoercionRows))
SpecCoercion == InitCoercion /\ [][NextRules]_vars

\* load_and_analyze as a unit: processed_data holds a table as lines 131-190
\* of transform_data build it from a raw table, the zero-row table included,
\* assigned to the run instance by its caller.  (transform_data itself never
\* stores the zero-row table: it raises at line 200 before line 204.)
InitAnalyze ==
    \E t \in TablesOver(PipelineRows), today \in Clock :
        /\ raw_data = Table(t)
        /\ processed_data = Table(Processed(t, today))
        /\ data_quality_report = EmptyReport
        /\ processing_logs = 1
        /\ op = "extract"
        /\ prev_op = "new"
        /\ uploaded = "csv"
        /\ outcome = "ok"
        /\ insights = NoInsights

SpecAnalyze == InitAnalyze /\ [][NextRules]_vars

InitDates == Loaded(TablesOver(DateRows))

SpecDates == InitDates /\ [][NextRules]_vars

InitScenario == Loaded(ScenarioTables)
SpecScenario == InitScenario /\ [][NextRules]_vars

(***************************************************************************)
(* Properties.                                                             *)
(***************************************************************************)
Rows(table) == table.rows
TransformDone == op = "transform" /\ outcome = "ok"
LoadDone == op = "load" /\ outcome = "ok"

\* The flag of the first rule row r violates, in the order e-mail, price,
\* quantity.
FirstViolatedRule(r) ==
    IF InvalidEmail(r) THEN "Invalid Email"
    ELSE IF InvalidPrice(r) THEN "Invalid Price"
    ELSE IF InvalidQuantity(r) THEN "Invalid Quantity"
    ELSE NoFlag

\* C1: after Transform every row carries the flag of the first rule it
\* violates in the order e-mail, price, quantity (and no flag when it violates
\* none): an invalid e-mail wins over an invalid price or quantity, an invalid
\* price over an invalid quantity.
C1_FirstRuleWins ==
    processed_data.present =>
        \A i \in DOMAIN Rows(processed_data) :
            Rows(processed_data)[i].data_quality_flag
                = FirstViolatedRule(Rows(processed_data)[i])

\* C2: whenever Load/Analyze returns an insights summary, the processed table
\* it read is the one Transform produces from the run's current raw table.
C2_LoadReadsCurrentTable ==
    LoadDone =>
        /\ raw_data.present
        /\ \E today \in Clock :
               Rows(processed_data) = Processed(Rows(raw_data), today)

\* C3: Transform without a raw table and Load/Analyze without a processed
\* table return None (no table, no insights), leave the raw table, the
\* processed table and the quality report as they were, and add exactly one
\* log entry.
C3_MissingInputAborts ==
    [][((op' = "transform" /\ ~raw_data.present)
            \/ (op' = "load" /\ ~processed_data.present))
        => /\ outcome' = "none"
           /\ ~insights'.present
           /\ raw_data' = raw_data
           /\ processed_data' = processed_data
           /\ data_quality_report' = data_quality_report
           /\ processing_logs' = processing_logs + 1]_vars

\* Load/Analyze has been refused for want of a processed table, right after a
\* Transform that was refused for want of a raw table.
C3_Witness ==
    /\ op = "load" /\ outcome = "none"
    /\ prev_op = "transform"
    /\ ~raw_data.present
    /\ ~processed_data.present

\* C4: a report produced by Transform has clean_records + error_records ==
\* total_records and 0 <= clean_records <= total_records, and right after the
\* Transform run total_records is the number of rows of the raw table.
C4_ReportCountsAddUp ==
    /\ data_quality_report.present =>
           /\ data_quality_report.clean_records + data_quality_report.error_records
                  = data_quality_report.total_records
           /\ 0 <= data_quality_report.clean_records
           /\ data_quality_report.clean_records <= data_quality_report.total_records
    /\ TransformDone =>
           /\ data_quality_report.present
           /\ data_quality_report.total_records = Len(Rows(raw_data))

\* A Transform run has reported a table with both clean and flagged rows, one
\* of them violating two rules.
C4_Witness ==
    /\ TransformDone
    /\ data_quality_report.clean_records > 0
    /\ data_quality_report.error_records > 0
    /\ \E i \in DOMAIN Rows(processed_data) :
           /\ InvalidEmail(Rows(processed_data)[i])
           /\ InvalidQuantity(Rows(processed_data)[i])

\* C5: Transform on a raw table with zero rows completes and produces a report
\* with total_records == 0 whose data_quality_score is undefined.
C5_EmptyTableReport ==
    (op = "transform" /\ raw_data.present /\ Len(Rows(raw_data)) = 0) =>
        /\ outcome = "ok"
        /\ data_quality_report.present
        /\ data_quality_report.total_records = 0
        /\ data_quality_report.data_quality_score = NaN

\* The tier of a price p >= 0 with the lower bounds inclusive.
LowerInclusiveTier(p) ==
    IF p < BudgetEdge THEN "Budget"
    ELSE IF p < MidRangeEdge THEN "Mid-range"
    ELSE IF p < PremiumEdge THEN "Premium"
    ELSE "Luxury"

\* C6: every row whose price coerces to a number p >= 0 has price_tier Budget
\* for 0 <= p < 50, Mid-range for 50 <= p < 200, Premium for 200 <= p < 500 and
\* Luxury for p >= 500.
C6_TierLowerBoundsInclusive ==
    processed_data.present =>
        \A i \in DOMAIN Rows(processed_data) :
            LET r == Rows(processed_data)[i]
            IN  (IsNum(r.price) /\ r.price.n >= 0)
                    => r.price_tier = LowerInclusiveTier(r.price.n)

\* The sum of total_amount over the rows of customer c in table df.
Spend(df, c) ==
    SumCells([i \in DOMAIN df |->
                 IF df[i].customer_id = c THEN df[i].total_amount ELSE NaN])

\* C7 as stated: the segment of every row is decided by its customer's summed
\* total_amount S: VIP if S > 1000, Regular if S is exactly 1000 or exactly
\* 300, New if S < 300.
C7_Exactly300IsRegular ==
    processed_data.present =>
        \A i \in DOMAIN Rows(processed_data) :
            LET r == Rows(processed_data)[i]
                S == Spend(Rows(processed_data), r.customer_id)
            IN  /\ S > VipSpend => r.customer_segment = "VIP"
                /\ S = VipSpend => r.customer_segment = "Regular"
                /\ S = RegularSpend => r.customer_segment = "Regular"
                /\ S < RegularSpend => r.customer_segment = "New"

\* C7 amended: every row of a customer has the same segment, decided by the
\* customer's summed total_amount S: VIP if S > 1000, Regular if
\* 300 < S <= 1000 (so exactly 1000 is Regular), New if S <= 300 (so exactly
\* 300 is New).
C7_SegmentBySpend ==
    processed_data.present =>
        \A i \in DOMAIN Rows(processed_data) :
            LET r == Rows(processed_data)[i]
                S == Spend(Rows(processed_data), r.customer_id)
            IN  /\ r.customer_segment =
                       (IF S > VipSpend THEN "VIP"
                        ELSE IF S > RegularSpend THEN "Regular"
                        ELSE "New")
                /\ \A j \in DOMAIN Rows(processed_data) :
                       Rows(processed_data)[j].customer_id = r.customer_id
                           => Rows(processed_data)[j].customer_segment
                                  = r.customer_segment

\* Transform has segmented a table in which one customer's two rows sum to
\* exactly 300: both rows are New.
C7_Witness ==
    /\ TransformDone
    /\ Len(Rows(processed_data)) = 2
    /\ Rows(processed_data)[1].customer_id = Rows(processed_data)[2].customer_id
    /\ Rows(processed_data)[1].total_amount = Num(150)
    /\ Rows(processed_data)[2].total_amount = Num(150)
    /\ Rows(processed_data)[1].customer_segment = "New"
    /\ Rows(processed_data)[2].customer_segment = "New"

\* The latest period of df and the one before it, and their summed revenue.
LastPeriod(df) == CHOOSE o \in Months(df) : \A x \in Months(df) : x <= o
PreviousPeriod(df) ==
    CHOOSE o \in Months(df) \ {LastPeriod(df)} :
        \A x \in Months(df) \ {LastPeriod(df)} : x <= o

Abs(x) == IF x < 0 THEN -x ELSE x

\* C8 as stated: monthly_growth equals 100 * (last - previous) / previous for
\* the summed revenue of the chronologically latest period and of the period
\* before it (wherever that quotient is defined), and is 0 with fewer than two
\* distinct periods.  (monthly_growth is held in hundredths of a percent.)
C8_GrowthIsExactPercentChange ==
    LoadDone =>
        LET df == Rows(processed_data)
            g == insights.monthly_growth
        IN  IF Cardinality(Months(df)) >= 2
            THEN MonthRevenue(df, PreviousPeriod(df)) # 0 =>
                     /\ IsNum(g)
                     /\ g.n * MonthRevenue(df, PreviousPeriod(df))
                            = 10000 * (MonthRevenue(df, LastPeriod(df))
                                       - MonthRevenue(df, PreviousPeriod(df)))
            ELSE g = Num(0)

\* C8 amended: with two or more distinct periods and a non-zero revenue in the
\* period before the latest, monthly_growth is 100 * (last - previous) /
\* previous rounded to 2 decimals (periods in calendar order); with a zero
\* revenue in that period it is inf, -inf or nan; with fewer than two
\* distinct periods it is 0.
C8_GrowthIsRoundedPercentChange ==
    LoadDone =>
        LET df == Rows(processed_data)
            g == insights.monthly_growth
        IN  IF Cardinality(Months(df)) >= 2
            THEN LET last == MonthRevenue(df, LastPeriod(df))
                     previous == MonthRevenue(df, PreviousPeriod(df))
                 IN  IF previous = 0
                     THEN g \in {PosInf, NegInf, NaN}
                     ELSE /\ IsNum(g)
                          /\ 2 * Abs(g.n * previous - 10000 * (last - previous))
                                 <= Abs(previous)
            ELSE g = Num(0)

\* Load/Analyze has reported a growth of 50.0 for a table whose first row is
\* of the later month (150) and whose second row of the earlier one (100).
C8_Witness ==
    /\ LoadDone
    /\ Len(Rows(processed_data)) = 2
    /\ Rows(processed_data)[1].month.k = "period"
    /\ Rows(processed_data)[2].month.k = "period"
    /\ Rows(processed_data)[1].month.ord > Rows(processed_data)[2].month.ord
    /\ Rows(processed_data)[1].revenue = Num(150)
    /\ Rows(processed_data)[2].revenue = Num(100)
    /\ insights.monthly_growth = Num(5000)

\* C9: a Transform call that directly follows a Transform call on the same run
\* ends as the first did and leaves the same Data Quality Report.
C9_TransformTwiceSameReport ==
    [][(op = "transform" /\ op' = "transform")
        => /\ outcome' = outcome
           /\ data_quality_report' = data_quality_report]_vars

\* Transform has run twice in a row and reported quality issues.
C9_Witness ==
    /\ TransformDone
    /\ prev_op = "transform"
    /\ Len(data_quality_report.quality_issues) >= 2
    /\ data_quality_report.clean_records > 0

\* C10: Transform leaves the run's raw table unchanged, and Load/Analyze
\* leaves the processed table and the quality report unchanged.
C10_PhasesDoNotMutateInput ==
    [][/\ op' = "transform" => raw_data' = raw_data
       /\ op' = "load" => /\ processed_data' = processed_data
                          /\ data_quality_report' = data_quality_report]_vars

\* Load/Analyze has returned insights right after a Transform of a raw table
\* with an unparseable price, which the raw table still holds.
C10_Witness ==
    /\ LoadDone
    /\ prev_op = "transform"
    /\ \E i \in DOMAIN Rows(raw_data) : Rows(raw_data)[i].price = Unparseable

\* C11: Extract given an input that cannot be read as a table returns None
\* (no table), leaves the raw table, the processed table and the quality
\* report as they were, and adds exactly one log entry.
C11_UnreadableInputAbortsExtract ==
    [][(op' = "extract" /\ uploaded' = "bad")
        => /\ outcome' = "none"
           /\ ~insights'.present
           /\ raw_data' = raw_data
           /\ processed_data' = processed_data
           /\ data_quality_report' = data_quality_report
           /\ processing_logs' = processing_logs + 1]_vars

\* Extract has failed on an unreadable input while the run holds a raw table,
\* a processed table and a report, right after a Transform.
C11_Witness ==
    /\ op = "extract" /\ uploaded = "bad" /\ outcome = "none"
    /\ prev_op = "transform"
    /\ raw_data.present /\ Len(Rows(raw_data)) > 0
    /\ processed_data.present
    /\ data_quality_report.present

\* The rows of converted table t that violate none of the three rules.
RuleAbiding(t) ==
    {i \in DOMAIN t :
        ~InvalidEmail(t[i]) /\ ~InvalidPrice(t[i]) /\ ~InvalidQuantity(t[i])}

\* C12: on a raw table with at least one row Transform completes and reports
\* clean_records equal to the number of rows that violate none of the e-mail,
\* price and quantity rules; so a table without violations has clean_records
\* == total_records and error_records == 0, and the four-row scenario has
\* clean_records == 2 and error_records == 2.
C12_CleanRecordsCountUnflaggedRows ==
    (op = "transform" /\ raw_data.present /\ Len(Rows(raw_data)) >= 1) =>
        /\ outcome = "ok"
        /\ data_quality_report.present
        /\ data_quality_report.total_records = Len(Rows(raw_data))
        /\ data_quality_report.clean_records
               = Cardinality(RuleAbiding(ConvertTypes(Rows(raw_data))))
        /\ data_quality_report.error_records
               = Len(Rows(raw_data)) - Cardinality(RuleAbiding(ConvertTypes(Rows(raw_data))))
        /\ Rows(raw_data) = EndToEndTable =>
               /\ data_quality_report.clean_records = 2
               /\ data_quality_report.error_records = 2

\* The price rule with a failed coercion treated as invalid.
PriceFailsOrNotPositive(r) == ~IsNum(r.price) \/ r.price.n <= 0

\* C13: a row whose price fails numeric coercion violates the price rule: with
\* a valid e-mail it is flagged 'Invalid Price', it is counted in the
\* 'Invalid prices' issue, and it is not counted as a clean record.
C13_FailedCoercionIsInvalidPrice ==
    processed_data.present =>
        LET df == Rows(processed_data)
            failed == {i \in DOMAIN df : ~IsNum(df[i].price)}
            bad == {i \in DOMAIN df : PriceFailsOrNotPositive(df[i])}
        IN  /\ \A i \in failed :
                   ~InvalidEmail(df[i]) => df[i].data_quality_flag = "Invalid Price"
            /\ failed # {} =>
                   \E k \in DOMAIN data_quality_report.quality_issues :
                       data_quality_report.quality_issues[k]
                           = Issue("Invalid prices", Cardinality(bad))
            /\ data_quality_report.clean_records
                   <= Len(df) - Cardinality(failed)

SaturdayOrSunday(c) == <<c.y, c.m, c.d>> \in {<<2024, 1, 6>>, <<2024, 1, 7>>}

\* C15: when Transform has run on a table with rows, it has not raised; every
\* row whose order_date could not be parsed has month, quarter,
\* days_since_order and is_weekend_order null (is_weekend_order is not a
\* boolean), and every row with a parseable date has is_weekend_order true
\* exactly when the date is a Saturday or a Sunday.
C15_UnparseableDateYieldsNulls ==
    (op = "transform" /\ raw_data.present /\ Len(Rows(raw_data)) >= 1) =>
        /\ outcome = "ok"
        /\ processed_data.present
        /\ \A i \in DOMAIN Rows(raw_data) :
               LET c == Rows(raw_data)[i].order_date
                   r == Rows(processed_data)[i]
               IN  IF c.k = "text"
                   THEN r.is_weekend_order = SaturdayOrSunday(c)
                   ELSE /\ r.month = NoPeriod
                        /\ r.quarter = NoPeriod
                        /\ r.days_since_order = NaN
                        /\ r.is_weekend_order \notin BOOLEAN

====
